---- MODULE Spec2Model ----
(***************************************************************************)
(* Model of detect_trim_silence_in_audio_files/detect_log_and_trim_silence *)
(* .py: the per-file loop that runs ffmpeg's silencedetect, pairs and      *)
(* filters the silence intervals, resolves the start and end trim points,  *)
(* builds the trim command, applies it and writes one log line.            *)
(*                                                                         *)
(* Times are integers in tenths of a second (2.5 s is 25); the arithmetic  *)
(* of the script's floats is taken as exact.  The external processes       *)
(* (ffmpeg silencedetect, ffprobe, os.makedirs, ffmpeg trim) are           *)
(* nondeterministic: each action draws what they return or raise.          *)
(* The files of the model are the files of the walk that pass the          *)
(* extension test of line 109.                                             *)
(***************************************************************************)
EXTENDS Integers, Sequences, FiniteSets, TLC

(* ------------------------------ bounds -------------------------------- *)

\* Number of matching audio files in the walked tree.
NumFiles == 2

\* Most silence intervals ffmpeg reports for one file (a further unmatched
\* silence_start may follow them).
MaxIntervals == 3

\* Timestamps (tenths of a second) ffmpeg may report.
Times == {0, 5, 12, 25, 50, 100, 1350, 1700, 1950, 1995}

\* Durations (tenths of a second) ffprobe may report.
Durations == {0, 50, 100, 2000}

(* ----------------------- configuration (lines 11-17) ------------------ *)

SAFE_START_LIMIT == 25

SAFE_END_LIMIT == 25

MIN_TRIM_SILENCE == 25

MAX_SILENCE_TO_TRIM == 600

(* ------------------------------ values -------------------------------- *)

\* Python's None, and a present value: an optional number is a sequence of
\* length 0 or 1.
None == << >>

Some(v) == << v >>

\* Python's truth test of an optional float: None and 0.0 are both false.
Truthy(x) == x # None /\ x[1] # 0

(* ------------------------ ffmpeg's stderr ----------------------------- *)

RECURSIVE SortedSeq(_)
\* The elements of a finite set of integers in increasing order.
SortedSeq(S) ==
    IF S = {} THEN << >>
    ELSE LET m == CHOOSE x \in S : \A y \in S : x <= y
         IN  << m >> \o SortedSeq(S \ {m})

\* silencedetect reports silence_start and silence_end lines alternately,
\* in increasing time; the last silence_start may have no silence_end.
EventLines(ts) ==
    [i \in 1..Len(ts) |->
        [kind |-> IF i % 2 = 1 THEN "silence_start" ELSE "silence_end",
         t    |-> ts[i]]]

Stderrs ==
    { EventLines(SortedSeq(S)) :
        S \in { X \in SUBSET Times : Cardinality(X) <= 2 * MaxIntervals + 1 } }

\* re.findall of one pattern over stderr, each match converted by float().
FindAll(kind, stderr) ==
    LET hit(l) == l.kind = kind
        ls == SelectSeq(stderr, hit)
    IN  [i \in 1..Len(ls) |-> ls[i].t]

(* ----------------------- pure steps of the loop ----------------------- *)

RECURSIVE zip_from_the_end(_, _)
\* A pairing that aligns the lists at their ends: with one start more than
\* ends it drops the first start, not the last.
zip_from_the_end(s, e) ==
    IF s = << >> \/ e = << >> THEN << >>
    ELSE zip_from_the_end(SubSeq(s, 1, Len(s) - 1), SubSeq(e, 1, Len(e) - 1))
         \o << << s[Len(s)], e[Len(e)] >> >>

RECURSIVE zip(_, _)
\* list(zip(starts, ends)): pairs by position until either list runs out.
zip(s, e) ==
    IF s = << >> \/ e = << >> THEN << >>
    ELSE << << Head(s), Head(e) >> >> \o zip(Tail(s), Tail(e))

\* The filter with its lower bound exclusive.
KeepPair_exclusive(p) ==
    MIN_TRIM_SILENCE < p[2] - p[1] /\ p[2] - p[1] <= MAX_SILENCE_TO_TRIM

\* The filter without its lower bound.
KeepPair_no_lower_bound(p) == p[2] - p[1] <= MAX_SILENCE_TO_TRIM

\* The condition of the list comprehension of lines 202-206.
KeepPair(p) ==
    MIN_TRIM_SILENCE <= p[2] - p[1] /\ p[2] - p[1] <= MAX_SILENCE_TO_TRIM

\* The pairs passed on as they are, the comprehension's condition left out.
FilterPairs_unfiltered(pairs) == pairs

\* Lines 202-206: filtered_pairs.
FilterPairs(pairs) == SelectSeq(pairs, KeepPair)

\* The start check with the 10 s ceiling inclusive.
StartTrimOf_ceiling_inclusive(ss, es) ==
    IF ss[1] < SAFE_START_LIMIT /\ es[1] <= 100 THEN es[1] ELSE 0

\* Lines 219, 234-235: start_trim from the filtered starts and ends.
StartTrimOf(ss, es) ==
    IF ss[1] < SAFE_START_LIMIT /\ es[1] < 100 THEN es[1] ELSE 0

\* The end check with Case B testing where the last silence starts, not
\* where it ends, against 85% of the duration.
EndTrimOf_start_covers(ss, es, dur) ==
    IF Truthy(dur)
    THEN LET last_silence_start == ss[Len(ss)]
             last_silence_end   == es[Len(es)]
             silence_len        == last_silence_end - last_silence_start
             distance_to_end    == dur[1] - last_silence_start
         IN  IF distance_to_end <= SAFE_END_LIMIT
             THEN Some(last_silence_start)
             ELSE IF silence_len >= MIN_TRIM_SILENCE
                     /\ last_silence_start * 100 >= dur[1] * 85
                  THEN Some(last_silence_start)
                  ELSE None
    ELSE None

\* The end check run over every filtered interval, trimming at the first one
\* that qualifies.
EndTrimOf_any_interval(ss, es, dur) ==
    IF Truthy(dur)
    THEN LET ok(i) == \/ dur[1] - ss[i] <= SAFE_END_LIMIT
                      \/ /\ es[i] - ss[i] >= MIN_TRIM_SILENCE
                         /\ es[i] * 100 >= dur[1] * 85
             hits == { i \in 1..Len(ss) : ok(i) }
         IN  IF hits = {} THEN None
             ELSE Some(ss[CHOOSE i \in hits : \A j \in hits : i <= j])
    ELSE None

\* Lines 220, 253-270: end_trim from the filtered starts and ends and the
\* probed duration (0.85 is 85/100).
EndTrimOf(ss, es, dur) ==
    IF Truthy(dur)
    THEN LET last_silence_start == ss[Len(ss)]
             last_silence_end   == es[Len(es)]
             silence_len        == last_silence_end - last_silence_start
             distance_to_end    == dur[1] - last_silence_start
         IN  IF distance_to_end <= SAFE_END_LIMIT
             THEN Some(last_silence_start)
             ELSE IF silence_len >= MIN_TRIM_SILENCE
                     /\ last_silence_end * 100 >= dur[1] * 85
                  THEN Some(last_silence_start)
                  ELSE None
    ELSE None

\* The keep-original test with the None test inverted.
KeepOriginal_inverted(st, et) == st = 0 /\ et # None

\* Line 277: the keep-original test.
KeepOriginal(st, et) == st = 0 /\ et = None

\* Lines 291-297: the bad-duration test of the command construction.
BadDuration(st, et) == Truthy(et) /\ st > 0 /\ et[1] - st <= 0

\* Lines 283-303: the options of cmd_trim that carry a bound, in order.
TrimCommand(st, et) ==
    (IF st > 0 THEN << << "-ss", st >> >> ELSE << >>)
    \o (IF Truthy(et)
        THEN IF st > 0 THEN << << "-t", et[1] - st >> >>
                       ELSE << << "-to", et[1] >> >>
        ELSE << >>)

\* Lines 195-310 as one function of the detected pairs and the probed
\* duration, every external step succeeding: the tag logged for the file and
\* the decision and command behind it.
RunOutcome(pairs, dur) ==
    LET fp == FilterPairs(pairs)
        ss == [i \in 1..Len(fp) |-> fp[i][1]]
        es == [i \in 1..Len(fp) |-> fp[i][2]]
        st == StartTrimOf(ss, es)
        et == EndTrimOf(ss, es, dur)
        out(tag, a, b, c) == [tag |-> tag, start_trim |-> a, end_trim |-> b, cmd |-> c]
    IN  IF pairs = << >> THEN out("NO SILENCE", 0, None, << >>)
        ELSE IF fp = << >> THEN out("IGNORED SILENCE", 0, None, << >>)
        ELSE IF KeepOriginal(st, et) THEN out("KEEP ORIGINAL", st, et, << >>)
        ELSE IF BadDuration(st, et)
             THEN out("SKIPPED - BAD DURATION", st, et, << << "-ss", st >> >>)
        ELSE out("TRIMMED", st, et, TrimCommand(st, et))

(* ------------------------------ state --------------------------------- *)

VARIABLES
    idx,            \* position of the loop in the list of files
    pc,             \* position of the loop body
    det,            \* how the detection run ended: "ok", "exit", "raise"
    starts,
    ends,
    silence_pairs,
    filtered_pairs,
    start_trim,
    end_trim,
    duration,
    cmd_trim,
    applied,        \* files for which the trim command was run
    log             \* the records written to LOG_FILE, one per line

vars == << idx, pc, det, starts, ends, silence_pairs, filtered_pairs,
           start_trim, end_trim, duration, cmd_trim, applied, log >>

locals == << det, starts, ends, silence_pairs, filtered_pairs,
             start_trim, end_trim, duration, cmd_trim >>

\* Every variable of the loop body is assigned before it is read in each
\* iteration, so at the head of the loop its old value is dead: the model
\* clears it there.
Cleared ==
    /\ det = "ok"
    /\ starts = << >>
    /\ ends = << >>
    /\ silence_pairs = << >>
    /\ filtered_pairs = << >>
    /\ start_trim = 0
    /\ end_trim = None
    /\ duration = None
    /\ cmd_trim = << >>

Init ==
    /\ idx = 1
    /\ pc = "detect"
    /\ Cleared
    /\ applied = {}
    /\ log = << >>

\* log.write of one tagged line for the current file.
Write(tag) == log' = Append(log, [file |-> idx, tag |-> tag])

(* ------------------------------ actions ------------------------------- *)

\* Lines 165-193: run silencedetect and read the events off stderr.
Detect ==
    /\ pc = "detect"
    /\ idx <= NumFiles
    /\ \/ \* subprocess.run raises: print, continue (lines 186-189)
          /\ det' = "raise"
          /\ pc' = "iter_end"
          /\ UNCHANGED << starts, ends >>
       \/ \* ffmpeg ran; its exit status is not looked at
          \E stderr \in Stderrs, status \in {"ok", "exit"} :
            /\ det' = status
            /\ starts' = FindAll("silence_start", stderr)
            /\ ends' = FindAll("silence_end", stderr)
            /\ pc' = "parsed"
    /\ UNCHANGED << idx, silence_pairs, filtered_pairs, start_trim, end_trim,
                    duration, cmd_trim, applied, log >>

\* Lines 195-201.
Pair ==
    /\ pc = "parsed"
    /\ IF starts = << >> \/ ends = << >>
       THEN /\ Write("NO SILENCE")
            /\ pc' = "iter_end"
            /\ UNCHANGED silence_pairs
       ELSE /\ silence_pairs' = zip(starts, ends)
            /\ pc' = "paired"
            /\ UNCHANGED log
    /\ UNCHANGED << idx, det, starts, ends, filtered_pairs, start_trim,
                    end_trim, duration, cmd_trim, applied >>

\* Lines 202-214.
Filter ==
    /\ pc = "paired"
    /\ filtered_pairs' = FilterPairs(silence_pairs)
    /\ IF filtered_pairs' = << >>
       THEN /\ Write("IGNORED SILENCE")
            /\ pc' = "iter_end"
            /\ UNCHANGED << starts, ends >>
       ELSE /\ starts' = [i \in 1..Len(filtered_pairs') |-> filtered_pairs'[i][1]]
            /\ ends' = [i \in 1..Len(filtered_pairs') |-> filtered_pairs'[i][2]]
            /\ pc' = "filtered"
            /\ UNCHANGED log
    /\ UNCHANGED << idx, det, silence_pairs, start_trim, end_trim, duration,
                    cmd_trim, applied >>

\* Lines 219-236.
StartCheck ==
    /\ pc = "filtered"
    /\ start_trim' = StartTrimOf(starts, ends)
    /\ end_trim' = None
    /\ pc' = "probe"
    /\ UNCHANGED << idx, det, starts, ends, silence_pairs, filtered_pairs,
                    duration, cmd_trim, applied, log >>

\* Lines 241-270: ffprobe, then the end check.
ProbeEndCheck ==
    /\ pc = "probe"
    /\ \E d \in {None} \cup {Some(x) : x \in Durations} :
         \* None: check_output or float() raised (lines 249-251)
         /\ duration' = d
         /\ end_trim' = EndTrimOf(starts, ends, d)
    /\ pc' = "prepare"
    /\ UNCHANGED << idx, det, starts, ends, silence_pairs, filtered_pairs,
                    start_trim, cmd_trim, applied, log >>

\* Lines 273-274: os.makedirs either returns or raises OSError, which
\* nothing catches.
PrepareOutput ==
    /\ pc = "prepare"
    /\ \E made \in BOOLEAN : pc' = IF made THEN "check" ELSE "crashed"
    /\ UNCHANGED << idx, locals, applied, log >>

\* Lines 277-305.
BuildCommand ==
    /\ pc = "check"
    /\ IF KeepOriginal(start_trim, end_trim)
       THEN /\ Write("KEEP ORIGINAL")
            /\ pc' = "iter_end"
            /\ UNCHANGED cmd_trim
       ELSE IF BadDuration(start_trim, end_trim)
       THEN /\ Write("SKIPPED - BAD DURATION")
            /\ pc' = "iter_end"
            \* the start option is already appended at line 287
            /\ cmd_trim' = << << "-ss", start_trim >> >>
       ELSE /\ cmd_trim' = TrimCommand(start_trim, end_trim)
            /\ pc' = "apply"
            /\ UNCHANGED log
    /\ UNCHANGED << idx, det, starts, ends, silence_pairs, filtered_pairs,
                    start_trim, end_trim, duration, applied >>

\* Lines 307-315: only CalledProcessError is caught.
Apply ==
    /\ pc = "apply"
    /\ applied' = applied \cup {idx}
    /\ \E r \in {"ok", "nonzero", "oserror"} :
         CASE r = "ok" -> Write("TRIMMED") /\ pc' = "iter_end"
           [] r = "nonzero" -> Write("TRIM FAILED") /\ pc' = "iter_end"
           [] r = "oserror" -> pc' = "crashed" /\ UNCHANGED log
    /\ UNCHANGED << idx, locals >>

\* Line 108: the loop takes the next file.
NextFile ==
    /\ pc = "iter_end"
    /\ idx' = idx + 1
    /\ pc' = "detect"
    /\ det' = "ok"
    /\ starts' = << >>
    /\ ends' = << >>
    /\ silence_pairs' = << >>
    /\ filtered_pairs' = << >>
    /\ start_trim' = 0
    /\ end_trim' = None
    /\ duration' = None
    /\ cmd_trim' = << >>
    /\ UNCHANGED << applied, log >>

\* Line 317: the walk is exhausted.
Finish ==
    /\ pc = "detect"
    /\ idx > NumFiles
    /\ pc' = "done"
    /\ UNCHANGED << idx, locals, applied, log >>

Next ==
    \/ Detect
    \/ Pair
    \/ Filter
    \/ StartCheck
    \/ ProbeEndCheck
    \/ PrepareOutput
    \/ BuildCommand
    \/ Apply
    \/ NextFile
    \/ Finish

Spec == Init /\ [][Next]_vars

(* ----------------------- reading the state ---------------------------- *)

\* The tags of the log records written for file f, in order.
TagsOf(f) ==
    LET mine(r) == r.file = f
        rs == SelectSeq(log, mine)
    IN  [i \in 1..Len(rs) |-> rs[i].tag]

\* The start check has run on a non-empty filtered list.
StartDecided ==
    /\ pc \in {"probe", "prepare", "check", "apply", "iter_end", "crashed"}
    /\ filtered_pairs # << >>

\* Both checks have run: start_trim and end_trim are the trim decision.
Decided ==
    /\ pc \in {"prepare", "check", "apply", "iter_end", "crashed"}
    /\ filtered_pairs # << >>

first == filtered_pairs[1]

last == filtered_pairs[Len(filtered_pairs)]

(* ------------------------------ claims -------------------------------- *)

\* C1: a decision with startTrim > 0, endTrim set (0 included) and
\* endTrim - startTrim <= 0 ends as SKIPPED - BAD DURATION, and the trim
\* command is never run for the file.
C1_DegenerateRejected ==
    (Decided /\ start_trim > 0 /\ end_trim # None /\ end_trim[1] - start_trim <= 0)
        => /\ pc # "apply"
           /\ idx \notin applied
           /\ pc = "iter_end" => TagsOf(idx) = << "SKIPPED - BAD DURATION" >>

\* The end-trim rule as the claim words it, for a known duration d.
C2_CaseA(d) == d - last[1] <= SAFE_END_LIMIT

C2_CaseB(d) ==
    /\ ~C2_CaseA(d)
    /\ last[2] - last[1] >= MIN_TRIM_SILENCE
    /\ last[2] * 100 >= d * 85

C2_Rule(d) == IF C2_CaseA(d) \/ C2_CaseB(d) THEN Some(last[1]) ELSE None

\* C2 as stated: for every known duration, endTrim = last.start exactly in
\* Case A or Case B, and none otherwise.
C2_EndRuleEveryDuration ==
    (Decided /\ duration # None) => end_trim = C2_Rule(duration[1])

\* C2 amended: the rule holds for every known duration other than 0; a
\* duration of 0 is treated like an unavailable one and gives endTrim = none.
C2_EndRuleNonZeroDuration ==
    Decided =>
        IF duration # None /\ duration[1] # 0
        THEN end_trim = C2_Rule(duration[1])
        ELSE end_trim = None

\* Case A at its boundary: the last silence starts exactly SAFE_END_LIMIT
\* before the end, and end_trim is set.
C2_Witness ==
    /\ Decided
    /\ duration # None
    /\ duration[1] # 0
    /\ duration[1] - last[1] = SAFE_END_LIMIT
    /\ end_trim = Some(last[1])

\* C3: startTrim = first.end iff first.start < safeStartLimit and
\* first.end < 10 s; otherwise startTrim = 0.
C3_StartRule ==
    StartDecided =>
        /\ (start_trim = first[2]) <=> (first[1] < SAFE_START_LIMIT /\ first[2] < 100)
        /\ ~(first[1] < SAFE_START_LIMIT /\ first[2] < 100) => start_trim = 0

\* The start rule has fired on a list of several intervals.
C3_Witness ==
    /\ StartDecided
    /\ Len(filtered_pairs) >= 2
    /\ start_trim = first[2]
    /\ start_trim > 0

\* The pairs over the reported timestamps that pass the filter.
C4_KeptPairs == { p \in Times \X Times : KeepPair(p) }

\* Those that lie between lo and hi.
C4_Between(lo, hi) == { p \in C4_KeptPairs : lo <= p[1] /\ p[2] <= hi }

RECURSIVE C4_Chains(_, _, _)
\* The lists of at most n such pairs in time order, none overlapping.
C4_Chains(lo, hi, n) ==
    IF n = 0 THEN { << >> }
    ELSE { << >> } \cup
         UNION { { << p >> \o c : c \in C4_Chains(p[2], hi, n - 1) } :
                 p \in C4_Between(lo, hi) }

\* All of them over the reported timestamps, of at most MaxIntervals - 2
\* intervals.
C4_AllChains ==
    C4_Chains(0, CHOOSE t \in Times : \A u \in Times : u <= t, MaxIntervals - 2)

\* Every interior a filtered list with this first and last interval can
\* have: the chains that lie between the two.
C4_Interiors ==
    { c \in C4_AllChains :
        c = << >> \/ (first[2] <= c[1][1] /\ c[Len(c)][2] <= last[1]) }

\* What the loop does with a decision: keep, skip, or run the trim command.
C4_Route(st, et) ==
    IF KeepOriginal(st, et) THEN "KEEP ORIGINAL"
    ELSE IF BadDuration(st, et) THEN "SKIPPED - BAD DURATION"
    ELSE "APPLY"

\* The route the file of the current iteration took.
C4_Taken ==
    IF pc = "apply" \/ idx \in applied THEN "APPLY" ELSE TagsOf(idx)[1]

\* The decisions of all the lists with the first and the last interval of
\* this file and any interior, for this file's duration.
C4_Decisions ==
    { LET other == << first >> \o mid \o << last >>
          ss == [i \in 1..Len(other) |-> other[i][1]]
          es == [i \in 1..Len(other) |-> other[i][2]]
      IN  << StartTrimOf(ss, es), EndTrimOf(ss, es, duration) >> :
      mid \in C4_Interiors }

\* C4: the decision and the file's route depend only on the first and the
\* last filtered interval: every list with the same first and last interval
\* and any other interior gives, for the same duration, the start_trim, the
\* end_trim and the route this file got.
C4_InteriorIgnored ==
    (Decided /\ Len(filtered_pairs) >= 2) =>
        /\ C4_Decisions = { << start_trim, end_trim >> }
        /\ pc \in {"apply", "iter_end"} =>
             \A d \in C4_Decisions : C4_Route(d[1], d[2]) = C4_Taken

\* A file with an interior interval that itself qualifies for the end rule
\* was decided, and only its start was trimmed.
C4_Witness ==
    /\ Decided
    /\ Len(filtered_pairs) = 3
    /\ duration = Some(2000)
    /\ filtered_pairs[2][2] * 100 >= 2000 * 85
    /\ pc = "iter_end"
    /\ TagsOf(idx) = << "TRIMMED" >>

\* The indices of silence_pairs whose length lies in the inclusive window.
C5_Kept ==
    { i \in DOMAIN silence_pairs :
        /\ silence_pairs[i][2] - silence_pairs[i][1] >= MIN_TRIM_SILENCE
        /\ silence_pairs[i][2] - silence_pairs[i][1] <= MAX_SILENCE_TO_TRIM }

\* The k-th smallest of them.
C5_Nth(k) ==
    CHOOSE i \in C5_Kept : Cardinality({ j \in C5_Kept : j <= i }) = k

\* C5: filtered_pairs is exactly the intervals of silence_pairs with
\* MIN_TRIM_SILENCE <= length <= MAX_SILENCE_TO_TRIM, in their order; when
\* none is left the file is logged IGNORED SILENCE and nothing is decided.
C5_FilterWindow ==
    (silence_pairs # << >> /\ pc # "paired") =>
        /\ Len(filtered_pairs) = Cardinality(C5_Kept)
        /\ \A k \in DOMAIN filtered_pairs :
             filtered_pairs[k] = silence_pairs[C5_Nth(k)]
        /\ filtered_pairs = << >> =>
             /\ pc = "iter_end"
             /\ TagsOf(idx) = << "IGNORED SILENCE" >>
             /\ start_trim = 0
             /\ end_trim = None
             /\ duration = None
             /\ cmd_trim = << >>
             /\ idx \notin applied

\* The filter kept an interval of exactly MIN_TRIM_SILENCE and one of exactly
\* MAX_SILENCE_TO_TRIM and dropped another.
C5_Witness ==
    /\ pc = "filtered"
    /\ Len(filtered_pairs) < Len(silence_pairs)
    /\ \E k \in DOMAIN filtered_pairs :
         filtered_pairs[k][2] - filtered_pairs[k][1] = MIN_TRIM_SILENCE
    /\ \E k \in DOMAIN filtered_pairs :
         filtered_pairs[k][2] - filtered_pairs[k][1] = MAX_SILENCE_TO_TRIM

\* C6: the i-th start is paired with the i-th end; a final start without an
\* end is dropped and the pairs before it are kept; the file is logged
\* NO SILENCE exactly when no pair results.
C6_PositionalPairing ==
    /\ pc = "paired" =>
         /\ silence_pairs # << >>
         /\ Len(silence_pairs) =
                IF Len(starts) <= Len(ends) THEN Len(starts) ELSE Len(ends)
         /\ \A i \in DOMAIN silence_pairs :
                silence_pairs[i] = << starts[i], ends[i] >>
    /\ (pc = "iter_end" /\ det # "raise") =>
         (TagsOf(idx) = << "NO SILENCE" >> <=> silence_pairs = << >>)
    /\ (pc = "iter_end" /\ det # "raise" /\ silence_pairs = << >>) =>
         (starts = << >> \/ ends = << >>)

\* Two pairs were built from three starts and two ends.
C6_Witness ==
    /\ pc = "paired"
    /\ Len(starts) = 3
    /\ Len(ends) = 2
    /\ Len(silence_pairs) = 2

\* C7: with start_trim = 0 and end_trim = None the file is logged
\* KEEP ORIGINAL; the trim command is not run and no TRIMMED, TRIM FAILED or
\* SKIPPED record is written for it.
C7_KeptOriginal ==
    (Decided /\ start_trim = 0 /\ end_trim = None) =>
        /\ pc # "apply"
        /\ idx \notin applied
        /\ \A i \in DOMAIN TagsOf(idx) : TagsOf(idx)[i] = "KEEP ORIGINAL"
        /\ pc = "iter_end" => TagsOf(idx) = << "KEEP ORIGINAL" >>

\* A file with filtered silence and a known duration was kept.
C7_Witness ==
    /\ Decided
    /\ start_trim = 0
    /\ end_trim = None
    /\ duration = Some(2000)
    /\ pc = "iter_end"
    /\ TagsOf(idx) = << "KEEP ORIGINAL" >>

\* The files whose iteration is over.
Processed == { f \in 1..NumFiles : f < idx \/ (f = idx /\ pc = "iter_end") }

\* C8: every processed file has exactly one log record, tagged with one of
\* the seven outcomes.
C8_ExactlyOneRecord ==
    \A f \in Processed :
        /\ Len(TagsOf(f)) = 1
        /\ TagsOf(f)[1] \in
             { "NO SILENCE", "IGNORED SILENCE", "KEEP ORIGINAL", "TRIMMED",
               "SKIPPED - BAD DURATION", "TRIM FAILED", "ANALYSIS FAILED" }

\* C9: no failure on one file aborts the batch: the run ends only when every
\* file of the walk has been processed.
C9_BatchNeverAborts ==
    pc \in {"done", "crashed"} => Processed = 1..NumFiles

\* C10: a file whose detection run failed is logged ANALYSIS FAILED and never
\* NO SILENCE.
C10_AnalysisFailedLogged ==
    det # "ok" =>
        \A i \in DOMAIN TagsOf(idx) : TagsOf(idx)[i] = "ANALYSIS FAILED"

\* The detected intervals and the probed duration of scenario 2:
\* [(0.5, 1.2), (195, 199.5)] and 200 s.
C11_Scenario ==
    /\ Decided
    /\ silence_pairs = << << 5, 12 >>, << 1950, 1995 >> >>
    /\ duration = Some(2000)

\* C11 as stated: scenario 2 is decided startTrim = 1.2, endTrim = 195 and,
\* the trim succeeding, logged TRIMMED.
C11_Scenario2Trimmed_1_2 ==
    C11_Scenario =>
        /\ start_trim = 12
        /\ end_trim = Some(1950)
        /\ pc = "iter_end" => TagsOf(idx) \in { << "TRIMMED" >>, << "TRIM FAILED" >> }

\* C11 amended: the filter drops (0.5, 1.2), whose length 0.7 is below
\* MIN_TRIM_SILENCE; Case B fires on (195, 199.5); the decision is
\* startTrim = 0, endTrim = 195, the command is -to 195 and the file is
\* logged TRIMMED when the trim succeeds.
C11_Scenario2Trimmed_0 ==
    C11_Scenario =>
        /\ filtered_pairs = << << 1950, 1995 >> >>
        /\ start_trim = 0
        /\ end_trim = Some(1950)
        /\ duration[1] - last[1] > SAFE_END_LIMIT
        /\ pc \in {"apply", "iter_end"} => cmd_trim = << << "-to", 1950 >> >>
        /\ pc = "iter_end" =>
             /\ idx \in applied
             /\ TagsOf(idx) \in { << "TRIMMED" >>, << "TRIM FAILED" >> }

\* Scenario 2 ran to a successful trim.
C11_Witness ==
    /\ C11_Scenario
    /\ pc = "iter_end"
    /\ TagsOf(idx) = << "TRIMMED" >>

\* The detected intervals of scenario 1, [(0.5, 1.2)], after the filter ran.
C12_Scenario ==
    /\ silence_pairs = << << 5, 12 >> >>
    /\ pc # "paired"

\* C12 as stated: scenario 1 is decided startTrim = 1.2, endTrim = none and
\* logged TRIMMED.
C12_Scenario1Trimmed ==
    (C12_Scenario /\ pc = "iter_end") =>
        /\ start_trim = 12
        /\ end_trim = None
        /\ TagsOf(idx) = << "TRIMMED" >>

\* C12 amended: the only interval of scenario 1 has length 0.7, below
\* MIN_TRIM_SILENCE, so the filter leaves nothing: the file is logged
\* IGNORED SILENCE, no trim point is decided and no trim is run.
C12_Scenario1Ignored ==
    C12_Scenario =>
        /\ filtered_pairs = << >>
        /\ pc = "iter_end"
        /\ TagsOf(idx) = << "IGNORED SILENCE" >>
        /\ start_trim = 0
        /\ end_trim = None
        /\ duration = None
        /\ idx \notin applied

\* Scenario 1 ran to the end of its iteration.
C12_Witness ==
    /\ C12_Scenario
    /\ pc = "iter_end"
    /\ det = "ok"
    /\ TagsOf(idx) = << "IGNORED SILENCE" >>

\* The value of option opt in a trim command, None when it is absent.
C13_Option(cmd, opt) ==
    LET at == { i \in DOMAIN cmd : cmd[i][1] = opt }
    IN  IF at = {} THEN None ELSE Some(cmd[CHOOSE i \in at : TRUE][2])

\* Where the span a trim command retains begins: its -ss offset, else 0.
C13_SpanStart(cmd) ==
    IF C13_Option(cmd, "-ss") = None THEN 0 ELSE C13_Option(cmd, "-ss")[1]

\* Where it ends: -ss plus -t, or -to, else None for the end of the track.
C13_SpanEnd(cmd) ==
    IF C13_Option(cmd, "-t") # None
    THEN Some(C13_SpanStart(cmd) + C13_Option(cmd, "-t")[1])
    ELSE C13_Option(cmd, "-to")

\* The silence intervals of the produced file: those of the input cut to the
\* retained span, the empty ones left out, relative to the new start.
C13_ProducedPairs(pairs, cmd) ==
    LET lo == C13_SpanStart(cmd)
        hi == C13_SpanEnd(cmd)
        from(p) == IF p[1] < lo THEN lo ELSE p[1]
        to(p) == IF hi # None /\ p[2] > hi[1] THEN hi[1] ELSE p[2]
        left(p) == from(p) < to(p)
        kept == SelectSeq(pairs, left)
    IN  [i \in 1..Len(kept) |-> << from(kept[i]) - lo, to(kept[i]) - lo >>]

\* The duration of the produced file, None when the input's is not known.
C13_ProducedDuration(dur, cmd) ==
    LET lo == C13_SpanStart(cmd)
        hi == C13_SpanEnd(cmd)
    IN  IF hi # None THEN Some(hi[1] - lo)
        ELSE IF dur = None THEN None
        ELSE IF dur[1] > lo THEN Some(dur[1] - lo)
        ELSE Some(0)

\* C13: a second run on the file a TRIMMED run produced ends in NO SILENCE
\* or KEEP ORIGINAL: the file is not trimmed again.
C13_Idempotent ==
    (pc = "iter_end" /\ TagsOf(idx) = << "TRIMMED" >>) =>
        RunOutcome(C13_ProducedPairs(silence_pairs, cmd_trim),
                   C13_ProducedDuration(duration, cmd_trim)).tag
            \in { "NO SILENCE", "KEEP ORIGINAL" }

\* The trim command of the current file has been handed to ffmpeg, or is
\* about to be.
C14_Invoked == pc = "apply" \/ idx \in applied

\* C14: a trim command that is run carries a start offset above 0 or an end
\* bound, and carries every bound that was decided: -ss for a start_trim
\* above 0, and -t or -to for an end_trim that is not None (0 included).
C14_CommandCarriesBounds ==
    C14_Invoked =>
        /\ \/ /\ C13_Option(cmd_trim, "-ss") # None
              /\ C13_Option(cmd_trim, "-ss")[1] > 0
           \/ C13_Option(cmd_trim, "-t") # None
           \/ C13_Option(cmd_trim, "-to") # None
        /\ start_trim > 0 => C13_Option(cmd_trim, "-ss") = Some(start_trim)
        /\ end_trim # None =>
             \/ C13_Option(cmd_trim, "-t") = Some(end_trim[1] - start_trim)
             \/ C13_Option(cmd_trim, "-to") = end_trim

====
